---- MODULE Spec2Model ----
(***************************************************************************)
(* Model of the ScrapingSetup ingestion-to-storage pipeline:               *)
(*   src/src/storage.rs   Storage::save_if_new, process_values_partition,  *)
(*                        process_bids_partition                           *)
(*   src/src/uploader.rs  Uploader::run, Uploader::upload_file             *)
(*   src/src/main.rs      start_scraper_pool: the tick generator and the   *)
(*                        worker tasks that call save_if_new; the cleanup  *)
(*                        task                                             *)
(*                                                                         *)
(* Units.  Instants are whole hours counted from 2024-03-30T00:00:00Z (the *)
(* code keeps microseconds; timestamp_micros is an injective rescaling).   *)
(* Metric values, prices and volumes are counted in units of f64::EPSILON, *)
(* so that two stored numbers can differ without exceeding the tolerance.  *)
(* An Option<f64> is a sequence of length 0 (None) or 1 (Some).            *)
(***************************************************************************)
EXTENDS Integers, Sequences, FiniteSets, TLC

VARIABLES
    files,          \* the filesystem: path -> content of the file linked there
    pending_files,  \* the dirty-file HashSet: path -> number of entries held
    remote,         \* object store: path -> content of the last successful put
    clock,          \* Utc::now()
    task,           \* worker -> state of its save_if_new call
    uploader,       \* state of Uploader::run
    tree,           \* the directories and the other files under the storage root
    collector,      \* state of the cleanup task (Storage::cleanup)
    pool,           \* the scraper pool: its tick channel, receiver lock, generator
    main,           \* main's loop over config.scrapers and the pools it started
    dirty_lock,     \* holder of the Mutex around the dirty-file HashSet
    hist            \* history (ghost) variables read only by the properties

vars == <<files, pending_files, remote, clock, task, uploader, tree, collector, pool, main,
          dirty_lock, hist>>

----------------------------------------------------------------------------
(* Bounds of the model *)

MaxMerges == 3
MaxUploadMerges == 2
MaxCycles == 2
MaxRaceMerges == 2
MaxPasses == 2
MaxTicks == 3
MaxPoolMerges == 2
MaxPools == 3
MaxRestarts == 1

----------------------------------------------------------------------------
(* Small helpers *)

Abs(x) == IF x < 0 THEN -x ELSE x

EmptyMap == [k \in {} |-> 0]

Put(m, k, v) == [x \in DOMAIN m \cup {k} |-> IF x = k THEN v ELSE m[x]]

Upsert_Keep(m, n) == m

Upsert(m, n) == [k \in DOMAIN m \cup DOMAIN n |-> IF k \in DOMAIN n THEN n[k] ELSE m[k]]

Range(s) == {s[i] : i \in 1..Len(s)}

IsPrefix(s, t) == Len(s) <= Len(t) /\ \A i \in 1..Len(s) : s[i] = t[i]

None == <<>>

Some(x) == <<x>>

----------------------------------------------------------------------------
(* Reference timezone (chrono_tz::Europe::Vienna) and the partition path *)

\* First hour (UTC) of central european summer time: 2024-03-31T01:00:00Z.
DstStartHour == 25

\* UTC offset of Europe/Vienna at a UTC instant, in hours (CET, then CEST).
ViennaOffset(start) == IF start >= DstStartHour THEN 2 ELSE 1

start_cet_Utc(start) == start

\* start.with_timezone(&Vienna): local wall-clock hours since 2024-03-30 00:00.
start_cet(start) == start + ViennaOffset(start)

\* The calendar date that lies n days after 2024-03-30 (March has 31 days).
CivilFromDays(n) ==
    IF 30 + n <= 31
    THEN [year |-> 2024, month |-> 3, day |-> 30 + n]
    ELSE [year |-> 2024, month |-> 4, day |-> 30 + n - 31]

\* (start_cet.year(), start_cet.month(), start_cet.day())
year_month_day(start) == CivilFromDays(start_cet(start) \div 24)

folder_path(base_path, name, subfolder) ==
    IF subfolder # None
    THEN <<base_path, subfolder[1]>>
    ELSE <<base_path, name>>

\* format!("{}/year={}/month={:02}/day={:02}/data.parquet", ...)
file_path(folder, date) ==
    [folder |-> folder, year |-> date.year, month |-> date.month,
     day |-> date.day, file |-> "data.parquet"]

----------------------------------------------------------------------------
(* File contents *)

Absent == [kind |-> "absent", cols |-> <<>>, rows |-> <<>>]

\* A file that File::create has created or truncated and that no writer
\* has completed yet.
Partial == [kind |-> "partial", cols |-> <<>>, rows |-> <<>>]

\* Bytes of two writers laid over each other.
Corrupt == [kind |-> "corrupt", cols |-> <<>>, rows |-> <<>>]

MetricOrder == <<"a", "b">>

\* sorted_columns: the column names in alphabetical order.
sorted_columns(all_columns) == SelectSeq(MetricOrder, LAMBDA c : c \in all_columns)

----------------------------------------------------------------------------
(* Values partition merge: Storage::process_values_partition *)

F64_EPSILON == 1

load_all_rows_None(rows, n) == EmptyMap

\* The existing rows as the code loads them into all_rows.
RECURSIVE load_all_rows(_, _)
load_all_rows(rows, n) ==
    IF n = 0 THEN EmptyMap
    ELSE LET acc == load_all_rows(rows, n - 1)
             r == rows[n]
             key == <<r.start, r.end>>
             entry == IF key \in DOMAIN acc
                      THEN acc[key]
                      ELSE [scraped_at |-> r.scraped_at, values |-> EmptyMap]
         IN  Put(acc, key, [entry EXCEPT !.values = Upsert(@, r.values)])

value_differs_Exact(old_v, v) == old_v # v

\* (old_v - v).abs() > f64::EPSILON
value_differs(old_v, v) == Abs(old_v - v) > F64_EPSILON

row_changed_Always(entry, new_values) == TRUE

\* The `changed` flag of one incoming reading against its row.
row_changed(entry, new_values) ==
    \/ entry.scraped_at = 0
    \/ \E k \in DOMAIN new_values :
          \/ k \notin DOMAIN entry.values
          \/ value_differs(entry.values[k], new_values[k])

\* The loop over the incoming readings data[1..n] of one partition.
RECURSIVE merge_values(_, _, _, _)
merge_values(st, data, n, now_micros) ==
    IF n = 0 THEN st
    ELSE LET prev == merge_values(st, data, n - 1, now_micros)
             d == data[n]
             key == <<d.delivery_from, d.delivery_to>>
             entry == IF key \in DOMAIN prev.all_rows
                      THEN prev.all_rows[key]
                      ELSE [scraped_at |-> 0, values |-> EmptyMap]
             changed == row_changed(entry, d.map)
             updated == IF changed
                        THEN [scraped_at |-> now_micros,
                              values |-> Upsert(entry.values, d.map)]
                        ELSE entry
         IN  [all_rows |-> Put(prev.all_rows, key, updated),
              all_columns |-> prev.all_columns \cup DOMAIN d.map,
              has_changes |-> prev.has_changes \/ changed]

Orderings(S) ==
    {s \in [1..Cardinality(S) -> S] : \A i, j \in 1..Cardinality(S) : i # j => s[i] # s[j]}

sort_by_key_Unsorted(keys) == Orderings(keys)

\* sorted_rows: the keys of all_rows (a HashMap, iterated in any order) after
\* the stable sort by start; keys with equal start keep the iteration order.
sort_by_key(keys) ==
    {s \in Orderings(keys) : \A i, j \in 1..Len(s) : i < j => s[i][1] <= s[j][1]}

values_file(all_rows, all_columns, order) ==
    [kind |-> "values",
     cols |-> sorted_columns(all_columns),
     rows |-> [i \in 1..Len(order) |->
                 [start |-> order[i][1], end |-> order[i][2],
                  scraped_at |-> all_rows[order[i]].scraped_at,
                  values |-> all_rows[order[i]].values]]]

\* The metric values held per key, without scraped_at.
stored_values(all_rows) == [k \in DOMAIN all_rows |-> all_rows[k].values]

\* Some reading among data[1..n] added a row or changed a stored value.
RECURSIVE rows_altered(_, _, _, _)
rows_altered(st, data, n, now_micros) ==
    /\ n > 0
    /\ \/ rows_altered(st, data, n - 1, now_micros)
       \/ stored_values(merge_values(st, data, n, now_micros).all_rows)
             # stored_values(merge_values(st, data, n - 1, now_micros).all_rows)

\* Outcome of process_values_partition on the file found at the path:
\* status "ok" with has_changes and the contents the rewrite can produce,
\* "panic" when a column does not downcast (unwrap on None), "err" when the
\* parquet reader rejects the file.  rows_differ tells whether the merge
\* added a row or changed a stored value.
process_values_partition(file, data, now_micros) ==
    IF file.kind = "bids" THEN
        [status |-> "panic", has_changes |-> FALSE, rows_differ |-> FALSE, contents |-> {}]
    ELSE IF file.kind \in {"partial", "corrupt"} THEN
        [status |-> "err", has_changes |-> FALSE, rows_differ |-> FALSE, contents |-> {}]
    ELSE
        LET loaded == [all_rows |-> load_all_rows(file.rows, Len(file.rows)),
                       all_columns |-> Range(file.cols),
                       has_changes |-> FALSE]
            merged == merge_values(loaded, data, Len(data), now_micros)
        IN  [status |-> "ok",
             has_changes |-> merged.has_changes,
             rows_differ |-> rows_altered(loaded, data, Len(data), now_micros),
             contents |-> {values_file(merged.all_rows, merged.all_columns, o) :
                              o \in sort_by_key(DOMAIN merged.all_rows)}]

----------------------------------------------------------------------------
(* Bids partition merge: Storage::process_bids_partition *)

RECURSIVE load_latest_values_First(_, _)
load_latest_values_First(rows, n) ==
    IF n = 0 THEN EmptyMap
    ELSE LET r == rows[n]
             acc == load_latest_values_First(rows, n - 1)
             key == <<r.start, r.end, r.product, r.rank>>
         IN  IF key \in DOMAIN acc THEN acc ELSE Put(acc, key, <<r.price, r.volume>>)

\* The existing rows as the code loads them into latest_values.
RECURSIVE load_latest_values(_, _)
load_latest_values(rows, n) ==
    IF n = 0 THEN EmptyMap
    ELSE LET r == rows[n]
         IN  Put(load_latest_values(rows, n - 1),
                 <<r.start, r.end, r.product, r.rank>>, <<r.price, r.volume>>)

\* price_changed / volume_changed
option_changed(last, new) ==
    IF last # None /\ new # None THEN Abs(last[1] - new[1]) > F64_EPSILON
    ELSE IF last = None /\ new = None THEN FALSE
    ELSE TRUE

is_changed(latest_values, key, price, volume) ==
    IF key \in DOMAIN latest_values
    THEN option_changed(latest_values[key][1], price)
         \/ option_changed(latest_values[key][2], volume)
    ELSE TRUE

\* The loop over the incoming bids data[1..n] of one partition.
RECURSIVE merge_bids(_, _, _, _)
merge_bids(st, data, n, now_micros) ==
    IF n = 0 THEN st
    ELSE LET prev == merge_bids(st, data, n - 1, now_micros)
             d == data[n]
             key == <<d.delivery_from, d.delivery_to, d.bid.product, d.bid.rank>>
             changed == is_changed(prev.latest_values, key, d.bid.price, d.bid.volume)
             row == [start |-> d.delivery_from, end |-> d.delivery_to,
                     product |-> d.bid.product, rank |-> d.bid.rank,
                     price |-> d.bid.price, volume |-> d.bid.volume,
                     scraped_at |-> now_micros]
         IN  IF changed
             THEN [latest_values |-> Put(prev.latest_values, key, <<d.bid.price, d.bid.volume>>),
                   new_rows |-> Append(prev.new_rows, row)]
             ELSE prev

bids_rewrite_NewFirst(existing_rows, new_rows) == new_rows \o existing_rows

\* existing_batches written verbatim, then new_batch.
bids_rewrite(existing_rows, new_rows) == existing_rows \o new_rows

process_bids_partition(file, data, now_micros) ==
    IF file.kind = "values" THEN
        [status |-> "panic", has_changes |-> FALSE, rows_differ |-> FALSE, contents |-> {}]
    ELSE IF file.kind \in {"partial", "corrupt"} THEN
        [status |-> "err", has_changes |-> FALSE, rows_differ |-> FALSE, contents |-> {}]
    ELSE
        LET loaded == [latest_values |-> load_latest_values(file.rows, Len(file.rows)),
                       new_rows |-> <<>>]
            merged == merge_bids(loaded, data, Len(data), now_micros)
        IN  [status |-> "ok",
             has_changes |-> merged.new_rows # <<>>,
             rows_differ |-> merged.new_rows # <<>>,
             contents |-> {[kind |-> "bids", cols |-> <<>>,
                            rows |-> bids_rewrite(file.rows, merged.new_rows)]}]

----------------------------------------------------------------------------
(* Storage::save_if_new: split by payload kind, group by local date *)

RECURSIVE values_data(_)
values_data(data) ==
    IF data = <<>> THEN <<>>
    ELSE LET item == Head(data)
         IN  (IF item.payload.kind = "Values"
              THEN <<[delivery_from |-> item.delivery_from,
                      delivery_to |-> item.delivery_to,
                      map |-> item.payload.map]>>
              ELSE <<>>) \o values_data(Tail(data))

RECURSIVE bids_of(_, _)
bids_of(item, bids) ==
    IF bids = <<>> THEN <<>>
    ELSE <<[delivery_from |-> item.delivery_from,
            delivery_to |-> item.delivery_to,
            bid |-> Head(bids)]>> \o bids_of(item, Tail(bids))

RECURSIVE bids_data(_)
bids_data(data) ==
    IF data = <<>> THEN <<>>
    ELSE LET item == Head(data)
         IN  (IF item.payload.kind = "Bids"
              THEN bids_of(item, item.payload.bids)
              ELSE <<>>) \o bids_data(Tail(data))

\* The keys of the HashMap `groups`.
groups(rows) == {year_month_day(rows[i].delivery_from) : i \in 1..Len(rows)}

group_data(rows, date) ==
    SelectSeq(rows, LAMBDA r : year_month_day(r.delivery_from) = date)

----------------------------------------------------------------------------
(* Configuration and inputs *)

Workers == {1, 2}

\* let buffer_size = if workers > 0 { workers as usize * 2 } else { 10 };
buffer_size(workers) == IF workers > 0 THEN workers * 2 ELSE 10

\* Storage::new("data", ...); one pool, its name and its sub_data_folder.
base_path == "data"

PoolName == "apg"

PoolSubfolder == None

Folder == folder_path(base_path, PoolName, PoolSubfolder)

Paths == {file_path(Folder, CivilFromDays(n)) : n \in 0..2}

tmp_path_InPlace(path) == path

\* format!("{}.tmp", file_path)
tmp_path(path) == [path EXCEPT !.file = "data.parquet.tmp"]

AllPaths == Paths \cup {[p EXCEPT !.file = "data.parquet.tmp"] : p \in Paths}

V(from, to, map) ==
    [delivery_from |-> from, delivery_to |-> to,
     payload |-> [kind |-> "Values", map |-> map]]

B(from, to, bids) ==
    [delivery_from |-> from, delivery_to |-> to,
     payload |-> [kind |-> "Bids", bids |-> bids]]

Bid(price, volume) ==
    [product |-> "X", rank |-> 1, price |-> price, volume |-> volume]

\* What scrape_data can return (never empty: the worker skips an empty
\* result).  23 = 2024-03-30T23:00Z, 45 = 2024-03-31T21:00Z and
\* 46 = 2024-03-31T22:00Z.
Batches ==
    {<<V(23, 24, m)>> : m \in {[a |-> 0], [a |-> 1], [a |-> 3], [b |-> 3]}}
    \cup {<<V(23, 25, [a |-> 0])>>, <<V(45, 46, [a |-> 0])>>}
    \cup {<<V(23, 24, [a |-> 0]), V(23, 24, [a |-> 3])>>,
          <<V(23, 24, [a |-> 3]), V(23, 24, [a |-> 3])>>,
          <<V(45, 46, [a |-> 0]), V(46, 47, [a |-> 0])>>}
    \cup {<<B(23, 24, <<Bid(p, Some(5))>>)>> : p \in {None, Some(0), Some(1), Some(3)}}
    \cup {<<B(23, 24, <<Bid(Some(0), Some(5)), Bid(Some(3), Some(5))>>)>>,
          <<B(23, 24, <<Bid(Some(3), Some(5)), Bid(Some(3), Some(5))>>)>>,
          <<V(46, 47, [a |-> 0]), B(46, 47, <<Bid(Some(0), Some(5))>>)>>}

\* The batches of the runs that interleave workers with the uploader.
\* Readings of two intervals and of two metrics of one local date.
RaceBatches ==
    {<<V(23, 24, [a |-> 0])>>, <<V(45, 46, [a |-> 0])>>, <<V(23, 24, [b |-> 3])>>}

\* What scrape_data returns to the workers of the pool: readings and bids
\* of one local date.
PoolBatches ==
    {<<V(23, 24, [a |-> 0])>>, <<B(23, 24, <<Bid(Some(0), Some(5))>>)>>}

UploadBatches ==
    {<<V(23, 24, [a |-> 0])>>, <<V(23, 24, [a |-> 3])>>, <<V(46, 47, [a |-> 0])>>}

----------------------------------------------------------------------------
(* The directory tree under the storage root, and the dates Storage::cleanup *)
(* reads from it                                                           *)

\* A file name: its date prefix ("year=", "month=", "day=" or none) and what
\* the rest of the name parses to as an i32 (None where it does not parse).
Name(prefix, parsed, text) == [prefix |-> prefix, parsed |-> parsed, text |-> text]

Plain(text) == Name("", None, text)

YearDir(n) == Name("year=", Some(n), "")

MonthDir(n) == Name("month=", Some(n), "")

DayDir(n) == Name("day=", Some(n), "")

\* path.parent(); a path is the sequence of its names.
parent(path) == SubSeq(path, 1, Len(path) - 1)

\* path.file_name() .. strip_prefix(prefix) .. parse().ok()
extract_date_part(path, prefix) ==
    IF Len(path) > 0 /\ path[Len(path)].prefix = prefix
    THEN path[Len(path)].parsed
    ELSE None

\* The directory of a partition file and the file's own path.
directory(p) ==
    <<Plain(p.folder[1]), Plain(p.folder[2]), YearDir(p.year), MonthDir(p.month), DayDir(p.day)>>

entry_path(p) == Append(directory(p), Plain(p.file))

\* std::fs::create_dir_all(parent)
create_dir_all(t, dir) ==
    [t EXCEPT !.dirs = @ \cup {SubSeq(dir, 1, k) : k \in 1..Len(dir)}]

days_in_month(year, month) ==
    IF month = 2
    THEN (IF year % 4 = 0 /\ (year % 100 # 0 \/ year % 400 = 0) THEN 29 ELSE 28)
    ELSE IF month \in {4, 6, 9, 11} THEN 30 ELSE 31

with_ymd_and_hms_AnyDay(year, month, day) == Some([year |-> year, month |-> month, day |-> day])

\* Vienna.with_ymd_and_hms(year, month as u32, day as u32, 0, 0, 0).single():
\* None unless the three numbers are a calendar date (a negative number
\* becomes a huge u32).
with_ymd_and_hms(year, month, day) ==
    IF month \in 1..12 /\ day \in 1..days_in_month(year, month)
    THEN Some([year |-> year, month |-> month, day |-> day])
    ELSE None

\* The date of a `day=DD` directory whose parent is `month=MM` and whose
\* grandparent is `year=YYYY`.
partition_date(path) ==
    LET day_val == extract_date_part(path, "day=")
        month_val == extract_date_part(parent(path), "month=")
        year_val == extract_date_part(parent(parent(path)), "year=")
    IN  IF day_val # None /\ month_val # None /\ year_val # None
        THEN with_ymd_and_hms(year_val[1], month_val[1], day_val[1])
        ELSE None

cutoff_cet_Utc(cutoff) == cutoff

\* cutoff.with_timezone(&Vienna)
cutoff_cet(cutoff) == cutoff + ViennaOffset(cutoff)

\* date_naive() of a local wall-clock hour
date_naive(local) == CivilFromDays(local \div 24)

date_less_OrEqual(a, b) ==
    \/ a.year < b.year
    \/ a.year = b.year /\ a.month < b.month
    \/ a.year = b.year /\ a.month = b.month /\ a.day <= b.day

\* NaiveDate < NaiveDate
date_less(a, b) ==
    \/ a.year < b.year
    \/ a.year = b.year /\ a.month < b.month
    \/ a.year = b.year /\ a.month = b.month /\ a.day < b.day

\* date.date_naive() < cutoff_cet.date_naive()
expired(path, cutoff) ==
    LET date == partition_date(path)
    IN  date # None /\ date_less(date[1], date_naive(cutoff_cet(cutoff)))

----------------------------------------------------------------------------
(* The dirty-file set (HashSet<String>), kept as path -> entries held *)

insert_Duplicate(set, path) == [set EXCEPT ![path] = @ + 1]

\* HashSet::insert
insert(set, path) == [set EXCEPT ![path] = 1]

RECURSIVE insert_all(_, _)
insert_all(set, paths) ==
    IF paths = <<>> THEN set
    ELSE insert_all(insert(set, Head(paths)), Tail(paths))

record_upload_DropFailure(failed_uploads, path, ok) == failed_uploads

\* failed_uploads.push(file_path) on Err
record_upload(failed_uploads, path, ok) ==
    IF ok THEN failed_uploads ELSE Append(failed_uploads, path)

----------------------------------------------------------------------------
(* State *)

ClosedFd == [state |-> "closed", at |-> CHOOSE p \in Paths : TRUE]

IdleTask ==
    [pc |-> "idle", data |-> <<>>, vgroups |-> {}, bgroups |-> {},
     kind |-> "none", path |-> CHOOSE p \in Paths : TRUE, group |-> <<>>,
     newc |-> Absent, fd |-> ClosedFd, saved_any |-> FALSE,
     result |-> "none", crashed_at |-> "none"]

NoCall ==
    [files_before |-> [p \in AllPaths |-> Absent],
     pending_before |-> [p \in Paths |-> 0], snapshots |-> FALSE,
     kind |-> "none", touched |-> {},
     rows_changed |-> {}, rewritten |-> {}, marked |-> {}, before |-> Absent]

NoFinished ==
    [worker |-> 0, data |-> <<>>, result |-> "none", files |-> [p \in AllPaths |-> Absent]]

\* The cleanup task between two passes.
IdleCollector(retention_days) ==
    [pc |-> "sleep", retention_days |-> retention_days, cutoff |-> 0,
     next_pass |-> 0, stack |-> <<>>]

NoPass ==
    [result |-> "none", now |-> 0,
     dirs |-> {}, others |-> {}, files |-> [p \in AllPaths |-> Absent],
     propagated |-> {}, ignored |-> {}]

\* The pool of `workers` workers as start_scraper_pool sets it up: the
\* channel, the receiver behind its mutex, the generator in its loop.
\* tick[w] is the tick worker w received last.
StartedPool(workers) ==
    [workers |-> workers, buffer_size |-> buffer_size(workers), queue |-> <<>>,
     lock |-> 0, returned |-> FALSE, generator |-> "loop",
     tick |-> [w \in Workers |-> 0]]

\* A pool main has not come to yet, and one start_scraper_pool returned an
\* Err for: no generator task, no worker task.
NotStarted == [state |-> "not started", scraper |-> "none", generator |-> FALSE, workers |-> 0]

FailedPool == [NotStarted EXCEPT !.state = "failed"]

\* main before `for scraper_config in config.scrapers`.
MainAt(scrapers) ==
    [next |-> 1, scrapers |-> scrapers, pools |-> [i \in 1..Len(scrapers) |-> NotStarted]]

\* Mutex::new(HashSet::new()): nobody holds the lock.
Unlocked == <<"none", 0>>

\* What is known of a tick: the workers that received it, the calls of
\* scrape_data and of save_if_new made for it, what scrape_data returned.
NoTick == [by |-> {}, fetches |-> 0, fetched |-> "none", merges |-> 0]

\* The history variables at the start: nothing has happened.
InitHist ==
    [merges |-> 0, cycles |-> 0,
     call |-> [w \in Workers |-> NoCall],
     prev |-> NoFinished, last |-> NoFinished,
     values_merged |-> [p \in Paths |-> {}],
     bids_merged |-> {},
     owed |-> {}, put_ok |-> {}, put_failed |-> {},
     prev_failed |-> {}, marked_since_drain |-> {},
     stored |-> [p \in Paths |-> {}],
     raced |-> {},
     passes |-> 0, failed_passes |-> 0, pass |-> NoPass,
     emitted |-> 0, log |-> [i \in 1..MaxTicks |-> NoTick],
     restarts |-> 0]

Init ==
    /\ tree = [dirs |-> {}, others |-> {}]
    /\ collector = IdleCollector(1)
    /\ pool = StartedPool(Cardinality(Workers))
    /\ main = MainAt(<<>>)
    /\ dirty_lock = Unlocked
    /\ files = [p \in AllPaths |-> Absent]
    /\ pending_files = [p \in Paths |-> 0]
    /\ remote = [p \in Paths |-> Absent]
    /\ clock = 1
    /\ task = [w \in Workers |-> IdleTask]
    /\ uploader = [pc |-> "sleep", files_to_upload |-> {}, failed_uploads |-> <<>>]
    /\ hist = InitHist

----------------------------------------------------------------------------
(* A worker's call of Storage::save_if_new (src/src/main.rs, the worker    *)
(* loop; src/src/storage.rs).  One action per step that other tasks or the *)
(* uploader can observe.                                                   *)

\* The task after its call ended: the call's locals are dropped.
Ended(pc, result) == [IdleTask EXCEPT !.pc = pc, !.result = result]

\* The call has ended: with Ok(saved_any), with an Err, or by a panic.  Its
\* batch, its outcome and the files it left are kept for the calls whose
\* snapshots are asked for.
Finished(w, result) ==
    IF hist.call[w].snapshots
    THEN [worker |-> w, data |-> task[w].data, result |-> result, files |-> files]
    ELSE NoFinished

\* scrape_data returned `data`; save_if_new splits it by payload kind and
\* groups each kind by the local date of delivery_from.  With `snapshots`
\* the files and the dirty-file set found at the call are remembered.
save_if_new(w, inputs, max, snapshots) ==
    /\ task[w].pc \in {"idle", "fetch"}
    /\ hist.merges < max
    /\ \E data \in inputs :
          /\ task' = [task EXCEPT ![w] =
                        [IdleTask EXCEPT !.pc = "groups", !.data = data,
                                         !.vgroups = groups(values_data(data)),
                                         !.bgroups = groups(bids_data(data))]]
          /\ hist' = [hist EXCEPT !.merges = @ + 1,
                                  !.log = IF task[w].pc = "fetch"
                                          THEN [@ EXCEPT ![pool.tick[w]].fetched = "data",
                                                         ![pool.tick[w]].merges = @ + 1]
                                          ELSE @,
                                  !.prev = hist.last,
                                  !.last = NoFinished,
                                  !.call[w] =
                                     IF snapshots
                                     THEN [NoCall EXCEPT !.files_before = files,
                                                         !.pending_before = pending_files,
                                                         !.snapshots = TRUE]
                                     ELSE NoCall]
    /\ UNCHANGED <<files, pending_files, remote, clock, uploader, tree, collector, pool, main, dirty_lock>>

\* The next (year, month, day) group, Values groups first: the partition
\* file is read and merged in memory (process_*_partition up to the
\* has_changes test).
process_partition(w) ==
    /\ task[w].pc = "groups"
    /\ task[w].vgroups \cup task[w].bgroups # {}
    /\ LET t == task[w]
           kind == IF t.vgroups # {} THEN "values" ELSE "bids"
       IN  \E date \in (IF kind = "values" THEN t.vgroups ELSE t.bgroups) :
             /\ tree' = create_dir_all(tree, directory(file_path(Folder, date)))
             /\ LET path == file_path(Folder, date)
                    gd == IF kind = "values"
                          THEN group_data(values_data(t.data), date)
                          ELSE group_data(bids_data(t.data), date)
                    out == IF kind = "values"
                           THEN process_values_partition(files[path], gd, clock)
                           ELSE process_bids_partition(files[path], gd, clock)
                    rest == [t EXCEPT !.vgroups = IF kind = "values" THEN @ \ {date} ELSE @,
                                      !.bgroups = IF kind = "bids" THEN @ \ {date} ELSE @,
                                      !.kind = kind, !.path = path, !.group = gd]
                    called == [hist.call[w] EXCEPT
                                 !.kind = kind,
                                 !.touched = @ \cup {path},
                                 !.rows_changed = IF out.rows_differ THEN @ \cup {path} ELSE @,
                                 !.before = files[path]]
                    racing == \E v \in Workers \ {w} :
                                 task[v].path = path /\ task[v].pc \in {"create", "write", "rename"}
                    merged == [hist.values_merged EXCEPT ![path] =
                                 IF kind = "values"
                                 THEN @ \cup {<<gd[i].delivery_from, gd[i].delivery_to>> : i \in 1..Len(gd)}
                                 ELSE @]
                IN  IF out.status = "panic" THEN
                        /\ task' = [task EXCEPT ![w] = Ended("panicked", "panic")]
                        /\ hist' = [hist EXCEPT !.call[w] = called, !.values_merged = merged,
                                                !.last = Finished(w, "panic")]
                    ELSE IF out.status = "err" THEN
                        /\ task' = [task EXCEPT ![w] = Ended("idle", "err")]
                        /\ hist' = [hist EXCEPT !.call[w] = called, !.values_merged = merged,
                                                !.last = Finished(w, "err")]
                    ELSE IF ~out.has_changes THEN
                        /\ task' = [task EXCEPT ![w] = rest]
                        /\ hist' = [hist EXCEPT !.call[w] = called, !.values_merged = merged]
                    ELSE
                        /\ \E c \in out.contents :
                              task' = [task EXCEPT ![w] = [rest EXCEPT !.pc = "create", !.newc = c]]
                        /\ hist' = [hist EXCEPT !.call[w] = called, !.values_merged = merged,
                                                !.raced = IF racing THEN @ \cup {path} ELSE @]
    /\ clock' = clock + 1
    /\ UNCHANGED <<files, pending_files, remote, uploader, collector, pool, main, dirty_lock>>

\* File::create(&tmp_path): a new empty file, or the existing one truncated.
create_tmp(w) ==
    /\ task[w].pc = "create"
    /\ files' = [files EXCEPT ![tmp_path(task[w].path)] = Partial]
    /\ task' = [task EXCEPT ![w].pc = "write",
                            ![w].fd = [state |-> "linked", at |-> tmp_path(task[w].path)]]
    /\ UNCHANGED <<pending_files, remote, clock, uploader, hist, tree, collector, pool, main, dirty_lock>>

\* writer.write(..) and writer.close(): the bytes go to the file the
\* descriptor refers to, wherever it is linked by now.  Where another
\* writer of the same file completed first, the bytes of the two are laid
\* over each other and the longer one's tail remains.
write_tmp(w) ==
    /\ task[w].pc = "write"
    /\ LET fd == task[w].fd
       IN  IF fd.state = "linked"
           THEN \E c \in (IF files[fd.at] = Partial
                          THEN {task[w].newc}
                          ELSE {task[w].newc, Corrupt}) :
                   files' = [files EXCEPT ![fd.at] = c]
           ELSE files' = files
    /\ task' = [task EXCEPT ![w].pc = "rename", ![w].fd = ClosedFd]
    /\ UNCHANGED <<pending_files, remote, clock, uploader, hist, tree, collector, pool, main, dirty_lock>>

\* The (delivery_from, delivery_to, metric) cells a Values file holds.
StoredCells(file) ==
    IF file.kind # "values" THEN {}
    ELSE UNION {{<<file.rows[i].start, file.rows[i].end, m>> : m \in DOMAIN file.rows[i].values} :
                   i \in 1..Len(file.rows)}

\* What a rename of src over dst does to another task's open descriptor.
relink(t, src, dst) ==
    IF src = dst \/ t.fd.state # "linked" THEN t
    ELSE IF t.fd.at = src THEN [t EXCEPT !.fd.at = dst]
    ELSE IF t.fd.at = dst THEN [t EXCEPT !.fd.state = "unlinked"]
    ELSE t

\* std::fs::rename(&tmp_path, path)
rename(w) ==
    /\ task[w].pc = "rename"
    /\ LET path == task[w].path
           src == tmp_path(path)
       IN  IF files[src].kind = "absent" THEN
               /\ task' = [task EXCEPT ![w] = Ended("idle", "err")]
               /\ hist' = [hist EXCEPT !.last = Finished(w, "err")]
               /\ files' = files
           ELSE
               /\ files' = IF src = path THEN files
                           ELSE [files EXCEPT ![path] = files[src], ![src] = Absent]
               /\ task' = [v \in Workers |->
                             IF v = w THEN [task[w] EXCEPT !.pc = "mark"]
                             ELSE relink(task[v], src, path)]
               /\ hist' = [hist EXCEPT
                             !.call[w].rewritten = @ \cup {path},
                             !.stored[path] = @ \cup StoredCells(files[src]),
                             !.bids_merged = IF task[w].kind = "bids" THEN @ \cup {path} ELSE @]
    /\ UNCHANGED <<pending_files, remote, clock, uploader, tree, collector, pool, main, dirty_lock>>

\* saved_any = true; dirty.lock().await.insert(file_path)
mark_dirty(w) ==
    /\ task[w].pc = "mark"
    /\ pending_files' = insert(pending_files, task[w].path)
    /\ task' = [task EXCEPT ![w].pc = "groups", ![w].saved_any = TRUE]
    /\ hist' = [hist EXCEPT !.call[w].marked = @ \cup {task[w].path},
                            !.owed = @ \cup {task[w].path},
                            !.marked_since_drain = @ \cup {task[w].path}]
    /\ UNCHANGED <<files, remote, clock, uploader, tree, collector, pool, main, dirty_lock>>

\* Ok(saved_any)
save_if_new_return(w) ==
    /\ task[w].pc = "groups"
    /\ task[w].vgroups \cup task[w].bgroups = {}
    /\ LET result == IF task[w].saved_any THEN "true" ELSE "false"
       IN  /\ task' = [task EXCEPT ![w] = Ended("idle", result)]
           /\ hist' = [hist EXCEPT !.last = Finished(w, result)]
    /\ UNCHANGED <<files, pending_files, remote, clock, uploader, tree, collector, pool, main, dirty_lock>>

\* The process stops at an arbitrary point: every task ends where it is and
\* the files stay as they are.
Crash ==
    /\ uploader.pc # "crashed"
    /\ task' = [w \in Workers |->
                  [task[w] EXCEPT !.crashed_at = task[w].pc, !.pc = "crashed", !.fd = ClosedFd]]
    /\ uploader' = [uploader EXCEPT !.pc = "crashed"]
    /\ UNCHANGED <<files, pending_files, remote, clock, hist, tree, collector, pool, main, dirty_lock>>

\* The process is started again after it stopped: main builds everything
\* anew.  Uploader::new makes an empty HashSet; the files on disk and the
\* objects of the remote store are what they were.
restart ==
    /\ uploader.pc = "crashed"
    /\ hist.restarts < MaxRestarts
    /\ pending_files' = [p \in Paths |-> 0]
    /\ dirty_lock' = Unlocked
    /\ uploader' = [pc |-> "sleep", files_to_upload |-> {}, failed_uploads |-> <<>>]
    /\ task' = [w \in Workers |-> IdleTask]
    /\ pool' = StartedPool(pool.workers)
    /\ collector' = IdleCollector(collector.retention_days)
    /\ hist' = [hist EXCEPT !.restarts = @ + 1]
    /\ UNCHANGED <<files, remote, clock, tree, main>>

----------------------------------------------------------------------------
(* Uploader::run *)

\* After the sleep: pending.drain().collect().  An empty batch `continue`s,
\* which changes nothing.
drain_cycle(bounded) ==
    /\ uploader.pc = "sleep"
    /\ bounded => hist.cycles < MaxCycles
    /\ \E p \in Paths : pending_files[p] > 0
    /\ uploader' = [pc |-> "upload",
                    files_to_upload |-> {p \in Paths : pending_files[p] > 0},
                    failed_uploads |-> <<>>]
    /\ pending_files' = [p \in Paths |-> 0]
    /\ hist' = [hist EXCEPT !.cycles = IF @ < MaxCycles THEN @ + 1 ELSE @,
                            !.prev_failed = hist.put_failed,
                            !.put_ok = {}, !.put_failed = {},
                            !.marked_since_drain = {}]
    /\ UNCHANGED <<files, remote, clock, task, tree, collector, pool, main, dirty_lock>>

\* The upload cycles of a run, counted up to MaxCycles.
drain == drain_cycle(TRUE)

\* upload_file for the next path of the batch: the file's bytes as they are
\* on disk now are put; the put fails when the file cannot be read or the
\* sink refuses.
put_object(path, answers) ==
    /\ uploader.pc = "upload"
    /\ path \in uploader.files_to_upload
    /\ \E accepted \in answers :
          LET ok == files[path].kind # "absent" /\ accepted
          IN  /\ remote' = IF ok THEN [remote EXCEPT ![path] = files[path]] ELSE remote
              /\ uploader' = [uploader EXCEPT
                                !.files_to_upload = @ \ {path},
                                !.failed_uploads = record_upload(@, path, ok)]
              /\ hist' = [hist EXCEPT
                            !.put_ok = IF ok THEN @ \cup {path} ELSE @,
                            !.put_failed = IF ok THEN @ ELSE @ \cup {path},
                            !.owed = IF ok THEN @ \ {path} ELSE @]
    /\ UNCHANGED <<files, pending_files, clock, task, tree, collector, pool, main, dirty_lock>>

\* upload_file against a sink that accepts or refuses the put.
upload_file(path) == put_object(path, BOOLEAN)

\* End of the cycle: the failed paths go back into the set.
reinsert ==
    /\ uploader.pc = "upload"
    /\ uploader.files_to_upload = {}
    /\ pending_files' = insert_all(pending_files, uploader.failed_uploads)
    /\ uploader' = [uploader EXCEPT !.pc = "sleep", !.failed_uploads = <<>>]
    /\ UNCHANGED <<files, remote, clock, task, hist, tree, collector, pool, main, dirty_lock>>

----------------------------------------------------------------------------
(* The Mutex around the dirty-file set, step by step: the insert of        *)
(* save_if_new (src/src/storage.rs) and the drain and the re-insertion of  *)
(* Uploader::run (src/src/uploader.rs), each split at the lock().await.    *)

Worker(w) == <<"worker", w>>

UploaderTask == <<"uploader", 0>>

drop_guard_Held(holder) == holder

\* The MutexGuard goes out of scope: the lock is free.
drop_guard(holder) == Unlocked

\* dirty.lock().await returned to worker w.
lock_dirty(w) ==
    /\ task[w].pc = "mark"
    /\ dirty_lock = Unlocked
    /\ dirty_lock' = Worker(w)
    /\ task' = [task EXCEPT ![w].pc = "insert"]
    /\ UNCHANGED <<files, pending_files, remote, clock, uploader, tree, collector, pool, main,
                   hist>>

\* .insert(file_path); the guard is a temporary of the statement.
insert_dirty(w) ==
    /\ task[w].pc = "insert"
    /\ pending_files' = insert(pending_files, task[w].path)
    /\ dirty_lock' = drop_guard(dirty_lock)
    /\ task' = [task EXCEPT ![w].pc = "groups", ![w].saved_any = TRUE]
    /\ hist' = [hist EXCEPT !.call[w].marked = @ \cup {task[w].path},
                            !.owed = @ \cup {task[w].path},
                            !.marked_since_drain = @ \cup {task[w].path}]
    /\ UNCHANGED <<files, remote, clock, uploader, tree, collector, pool, main>>

\* After the sleep: self.pending_files.lock().await returned.
lock_pending ==
    /\ uploader.pc = "sleep"
    /\ hist.cycles < MaxCycles
    /\ dirty_lock = Unlocked
    /\ dirty_lock' = UploaderTask
    /\ uploader' = [uploader EXCEPT !.pc = "drain"]
    /\ hist' = [hist EXCEPT !.cycles = @ + 1]
    /\ UNCHANGED <<files, pending_files, remote, clock, task, tree, collector, pool, main>>

\* pending.drain().collect(); the guard is dropped at the end of the block;
\* an empty batch `continue`s.
drain_pending ==
    /\ uploader.pc = "drain"
    /\ LET batch == {p \in Paths : pending_files[p] > 0}
       IN  uploader' = [pc |-> IF batch = {} THEN "sleep" ELSE "upload",
                        files_to_upload |-> batch, failed_uploads |-> <<>>]
    /\ pending_files' = [p \in Paths |-> 0]
    /\ dirty_lock' = drop_guard(dirty_lock)
    /\ hist' = [hist EXCEPT !.prev_failed = hist.put_failed,
                            !.put_ok = {}, !.put_failed = {},
                            !.marked_since_drain = {}]
    /\ UNCHANGED <<files, remote, clock, task, tree, collector, pool, main>>

\* The batch is through.  if !failed_uploads.is_empty(): the lock is taken
\* for the re-insertion; else the cycle ends.
lock_reinsert ==
    /\ uploader.pc = "upload"
    /\ uploader.files_to_upload = {}
    /\ IF uploader.failed_uploads = <<>>
       THEN /\ uploader' = [uploader EXCEPT !.pc = "sleep"]
            /\ dirty_lock' = dirty_lock
       ELSE /\ dirty_lock = Unlocked
            /\ dirty_lock' = UploaderTask
            /\ uploader' = [uploader EXCEPT !.pc = "reinsert"]
    /\ UNCHANGED <<files, pending_files, remote, clock, task, tree, collector, pool, main,
                   hist>>

\* pending.insert(file_path) for the next failed path; after the last one
\* the guard is dropped and the cycle ends.
reinsert_pending ==
    /\ uploader.pc = "reinsert"
    /\ LET rest == Tail(uploader.failed_uploads)
       IN  /\ pending_files' = insert(pending_files, Head(uploader.failed_uploads))
           /\ uploader' = [uploader EXCEPT !.failed_uploads = rest,
                                           !.pc = IF rest = <<>> THEN "sleep" ELSE "reinsert"]
           /\ dirty_lock' = IF rest = <<>> THEN drop_guard(dirty_lock) ELSE dirty_lock
    /\ UNCHANGED <<files, remote, clock, task, tree, collector, pool, main, hist>>

----------------------------------------------------------------------------
(* The cleanup task: Storage::cleanup and Storage::cleanup_recursive.  The *)
(* recursion is kept as a stack of the directories being listed, each with *)
(* the entries of its listing that are still to be visited.                *)

retention_days == {0, 1}

\* Utc::now() at the start of a pass, in hours since 2024-03-30T00:00Z.
Nows == {47, 69, 70, 71, 93, 94}

\* read_dir(path): the directories and files directly inside path.
read_dir(path) ==
    {d \in tree.dirs \cup tree.others : Len(d) = Len(path) + 1 /\ parent(d) = path}
       \cup {entry_path(p) : p \in {q \in AllPaths : files[q] # Absent /\ directory(q) = path}}

\* The tree and the partition files without everything at or below path.
tree_without(path) ==
    [dirs |-> {d \in tree.dirs : ~IsPrefix(path, d)},
     others |-> {f \in tree.others : ~IsPrefix(path, f)}]

files_without(path) ==
    [p \in AllPaths |-> IF IsPrefix(path, directory(p)) THEN Absent ELSE files[p]]

abort_Swallowed(op) ==
    /\ collector' = collector
    /\ hist' = [hist EXCEPT !.pass.propagated = @ \cup {op}]

\* An Err reaches cleanup's caller through every `?`: the pass is over, the
\* task logs "Cleanup failed" and sleeps until the next pass.
abort(op) ==
    /\ collector' = [collector EXCEPT !.pc = "sleep", !.stack = <<>>]
    /\ hist' = [hist EXCEPT !.pass.result = "err", !.pass.propagated = @ \cup {op},
                            !.failed_passes = @ + 1]

\* The entry e of the directory on top of the stack has been dealt with.
visited(e) ==
    [collector EXCEPT !.stack[Len(collector.stack)].entries = @ \ {e}]

\* The loop body of the cleanup task: cleanup(retention_days) computes the
\* cutoff and calls cleanup_recursive(base) where base exists.
cleanup ==
    /\ collector.pc = "sleep"
    /\ hist.passes < MaxPasses
    /\ \E now \in Nows :
          /\ now >= collector.next_pass
          /\ collector' =
                [collector EXCEPT
                   !.pc = "run",
                   !.cutoff = now - 24 * collector.retention_days,
                   !.next_pass = now + 24,
                   !.stack = <<[path |-> <<>>,
                                entries |-> {<<Plain(base_path)>>} \cap tree.dirs]>>]
          /\ hist' = [hist EXCEPT !.passes = @ + 1,
                                  !.pass = [NoPass EXCEPT !.result = "running",
                                                          !.now = now,
                                                          !.dirs = tree.dirs,
                                                          !.others = tree.others,
                                                          !.files = files]]
    /\ UNCHANGED <<files, pending_files, remote, clock, task, uploader, tree, pool, main, dirty_lock>>

\* cleanup_recursive(e) for an entry that is no expired day directory: a
\* file is left alone, a directory is listed.
cleanup_recursive ==
    /\ collector.pc = "run"
    /\ \E e \in collector.stack[Len(collector.stack)].entries :
          /\ ~(e \in tree.dirs /\ expired(e, collector.cutoff))
          /\ IF e \notin tree.dirs
             THEN /\ collector' = visited(e)
                  /\ hist' = hist
             ELSE \/ /\ collector' = [visited(e) EXCEPT
                                        !.stack = Append(@, [path |-> e, entries |-> read_dir(e)])]
                     /\ hist' = hist
                  \/ abort("read_dir")
    /\ UNCHANGED <<files, pending_files, remote, clock, task, uploader, tree, pool, main, dirty_lock>>

\* cleanup_recursive(e) for an expired day directory: remove_dir_all(e)?,
\* which removes the subtree, or fails having removed nothing or having
\* removed what the directory held.
remove_dir_all ==
    /\ collector.pc = "run"
    /\ \E e \in collector.stack[Len(collector.stack)].entries :
          /\ e \in tree.dirs
          /\ expired(e, collector.cutoff)
          /\ \/ /\ tree' = tree_without(e)
                /\ files' = files_without(e)
                /\ collector' = visited(e)
                /\ hist' = hist
             \/ /\ \E emptied \in BOOLEAN :
                      /\ tree' = IF emptied
                                 THEN [tree_without(e) EXCEPT !.dirs = @ \cup {e}]
                                 ELSE tree
                      /\ files' = IF emptied THEN files_without(e) ELSE files
                /\ abort("remove_dir_all")
    /\ UNCHANGED <<pending_files, remote, clock, task, uploader, pool, main, dirty_lock>>

\* Every entry of the directory on top of the stack has been visited:
\* `let _ = std::fs::remove_dir(path)` removes the directory if it is empty;
\* whatever error it returns is dropped.
remove_dir ==
    /\ collector.pc = "run"
    /\ LET top == collector.stack[Len(collector.stack)]
       IN  /\ top.path # <<>>
           /\ top.entries = {}
           /\ collector' = [collector EXCEPT !.stack = SubSeq(@, 1, Len(@) - 1)]
           /\ IF read_dir(top.path) # {}
              THEN /\ tree' = tree
                   /\ hist' = hist
              ELSE \/ /\ tree' = [tree EXCEPT !.dirs = @ \ {top.path}]
                      /\ hist' = hist
                   \/ /\ tree' = tree
                      /\ hist' = [hist EXCEPT !.pass.ignored = @ \cup {top.path}]
    /\ UNCHANGED <<files, pending_files, remote, clock, task, uploader, pool, main, dirty_lock>>

\* cleanup returns Ok(()); the task sleeps for a day.
cleanup_return ==
    /\ collector.pc = "run"
    /\ LET top == collector.stack[Len(collector.stack)]
       IN  top.path = <<>> /\ top.entries = {}
    /\ collector' = [collector EXCEPT !.pc = "sleep", !.stack = <<>>]
    /\ hist' = [hist EXCEPT !.pass.result = "ok"]
    /\ UNCHANGED <<files, pending_files, remote, clock, task, uploader, tree, pool, main, dirty_lock>>

----------------------------------------------------------------------------
(* start_scraper_pool (src/src/main.rs): the tick generator and the loop   *)
(* of each worker around its call of save_if_new.                          *)

WorkerCounts == 0..2

PoolWorkers_All == Workers

\* for i in 0..workers: the workers the pool spawns.
PoolWorkers == {w \in Workers : w <= pool.workers}

\* Some clone of Arc<Mutex<Receiver>> is alive: the one start_scraper_pool
\* holds until it returns, or the one of a worker task that has not ended.
rx_held ==
    \/ ~pool.returned
    \/ \E w \in PoolWorkers : task[w].pc \notin {"panicked", "stopped"}

\* The ticks in the channel.  The buffer is freed with the last clone of
\* the receiver.
pending == IF rx_held THEN pool.queue ELSE <<>>

channel_full_Never == FALSE

\* mpsc::channel(buffer_size): no permit is left.
channel_full == Len(pending) >= pool.buffer_size

rx_recv_Peek(queue) == [tick |-> Head(queue), rest |-> queue]

\* Receiver::recv with a tick in the buffer: the oldest one is taken out.
rx_recv(queue) == [tick |-> Head(queue), rest |-> Tail(queue)]

\* Ok(()) at the end of start_scraper_pool: its clone of rx is dropped.
start_scraper_pool_return ==
    /\ ~pool.returned
    /\ pool' = [pool EXCEPT !.returned = TRUE]
    /\ UNCHANGED <<files, pending_files, remote, clock, task, uploader, tree, collector, hist, main, dirty_lock>>

\* tx.send(()).await returned Ok: the tick is in the channel; the generator
\* sleeps for the delay and sends again.  While the channel is full the
\* send waits.
enqueue ==
    /\ pool.generator = "loop"
    /\ rx_held
    /\ ~channel_full
    /\ hist.emitted < MaxTicks
    /\ pool' = [pool EXCEPT !.queue = Append(pending, hist.emitted + 1)]
    /\ hist' = [hist EXCEPT !.emitted = @ + 1]
    /\ UNCHANGED <<files, pending_files, remote, clock, task, uploader, tree, collector, main, dirty_lock>>

\* tx.send(()).await in the generator's loop; is_err() when the receiver is
\* gone: the generator breaks.
tx_send ==
    \/ enqueue
    \/ /\ pool.generator = "loop"
       /\ ~rx_held
       /\ pool' = [pool EXCEPT !.generator = "stopped", !.queue = <<>>]
       /\ UNCHANGED <<files, pending_files, remote, clock, task, uploader, tree, collector, hist, main, dirty_lock>>

\* A spawned worker at the top of its loop: let mut lock = rx.lock().await;
lock_rx(w) ==
    /\ w \in PoolWorkers
    /\ task[w].pc = "idle"
    /\ pool.lock = 0
    /\ pool' = [pool EXCEPT !.lock = w]
    /\ task' = [task EXCEPT ![w].pc = "recv"]
    /\ UNCHANGED <<files, pending_files, remote, clock, uploader, tree, collector, hist, main, dirty_lock>>

\* lock.recv().await returned: Some(()) with a tick taken out of the
\* channel, or None once the channel is empty and the sender is dropped (the
\* worker breaks).  The lock is released at the end of the block.
recv(w) ==
    /\ task[w].pc = "recv"
    /\ IF pending # <<>>
       THEN LET got == rx_recv(pending)
            IN  /\ pool' = [pool EXCEPT !.queue = got.rest, !.lock = 0, !.tick[w] = got.tick]
                /\ task' = [task EXCEPT ![w].pc = "tick"]
                /\ hist' = [hist EXCEPT !.log[got.tick].by = @ \cup {w}]
       ELSE /\ pool.generator = "stopped"
            /\ pool' = [pool EXCEPT !.lock = 0]
            /\ task' = [task EXCEPT ![w].pc = "stopped"]
            /\ hist' = hist
    /\ UNCHANGED <<files, pending_files, remote, clock, uploader, tree, collector, main, dirty_lock>>

\* scraper.scrape_data() is called.
scrape_data(w) ==
    /\ task[w].pc = "tick"
    /\ task' = [task EXCEPT ![w].pc = "fetch"]
    /\ hist' = [hist EXCEPT !.log[pool.tick[w]].fetches = @ + 1]
    /\ UNCHANGED <<files, pending_files, remote, clock, uploader, tree, collector, pool, main, dirty_lock>>

\* scrape_data returned Err(e), which is logged, or Ok(data) with
\* data.is_empty(): save_if_new is not called and the loop goes round.
scrape_data_return(w) ==
    /\ task[w].pc = "fetch"
    /\ \E outcome \in {"err", "empty"} :
          hist' = [hist EXCEPT !.log[pool.tick[w]].fetched = outcome]
    /\ task' = [task EXCEPT ![w].pc = "idle"]
    /\ UNCHANGED <<files, pending_files, remote, clock, uploader, tree, collector, pool, main, dirty_lock>>

----------------------------------------------------------------------------
(* main (src/src/main.rs): the loop that starts a pool for each entry of   *)
(* config.scrapers.                                                        *)

\* values.get("url").and_then(as_str): no URL, or the URL by the provider
\* names it contains.
Urls == {None} \cup {Some(hints) : hints \in SUBSET {"entsoe", "apg"}}

\* An entry of config.scrapers: its URL, whether the adapter's constructor
\* succeeds, and its worker count.
ScraperConfigs ==
    [url : Urls, adapter_ok : BOOLEAN, workers : {1, 2}]

\* The adapter start_scraper_pool picks: Ok(name) or Err.
scraper(config) ==
    IF config.url = None THEN [ok |-> FALSE, name |-> "none"]
    ELSE IF "entsoe" \in config.url[1] THEN [ok |-> config.adapter_ok, name |-> "entsoe"]
    ELSE IF "apg" \in config.url[1] THEN [ok |-> config.adapter_ok, name |-> "apg"]
    ELSE [ok |-> FALSE, name |-> "none"]

on_error_Return(i, n) == n + 1

\* if let Err(e) = start_scraper_pool(..) { error!(..) }: the loop goes on
\* with the next entry.
on_error(i, n) == i + 1

\* One round of main's loop: start_scraper_pool for the next entry.  With
\* an adapter it spawns the generator and the workers and returns Ok(());
\* without one it returns the Err before anything is spawned.
start_scraper_pool ==
    /\ main.next <= Len(main.scrapers)
    /\ LET i == main.next
           config == main.scrapers[i]
           built == scraper(config)
       IN  main' = IF built.ok
                   THEN [main EXCEPT !.next = i + 1,
                                     !.pools[i] = [state |-> "started", scraper |-> built.name,
                                                   generator |-> TRUE,
                                                   workers |-> config.workers]]
                   ELSE [main EXCEPT !.next = on_error(i, Len(main.scrapers)),
                                     !.pools[i] = FailedPool]
    /\ UNCHANGED <<files, pending_files, remote, clock, task, uploader, tree, collector, pool,
                   dirty_lock, hist>>

----------------------------------------------------------------------------
(* Specifications *)

NoMergeInProgress == \A w \in Workers : task[w].pc \in {"idle", "panicked"}

\* The worker that takes the next tick from the shared receiver: the workers
\* run the same loop, so it is taken to be the first one that is still alive.
Receives(w) == \A v \in Workers : v < w => task[v].pc = "panicked"

\* Sequential merges: a worker of the pool starts a call only while no other
\* call is in progress.  The process can crash at any point.
Next ==
    \/ \E w \in Workers :
          \/ NoMergeInProgress /\ Receives(w) /\ save_if_new(w, Batches, MaxMerges, TRUE)
          \/ process_partition(w)
          \/ create_tmp(w)
          \/ write_tmp(w)
          \/ rename(w)
          \/ mark_dirty(w)
          \/ save_if_new_return(w)
    \/ Crash

Spec == Init /\ [][Next]_vars

\* The workers of the pool and the uploader, interleaved.
NextUpload ==
    \/ \E w \in Workers :
          \/ save_if_new(w, UploadBatches, MaxUploadMerges, FALSE)
          \/ process_partition(w)
          \/ create_tmp(w)
          \/ write_tmp(w)
          \/ rename(w)
          \/ mark_dirty(w)
          \/ save_if_new_return(w)
    \/ drain
    \/ \E path \in Paths : upload_file(path)
    \/ reinsert

SpecUpload == Init /\ [][NextUpload]_vars

\* The workers and the uploader in a process that can stop at any point and
\* be started again.
NextRestart ==
    \/ \E w \in Workers :
          \/ save_if_new(w, UploadBatches, MaxUploadMerges, FALSE)
          \/ process_partition(w)
          \/ create_tmp(w)
          \/ write_tmp(w)
          \/ rename(w)
          \/ mark_dirty(w)
          \/ save_if_new_return(w)
    \/ drain
    \/ \E path \in Paths : upload_file(path)
    \/ reinsert
    \/ Crash
    \/ restart

SpecRestart == Init /\ [][NextRestart]_vars

\* The workers and the uploader with every acquisition of the dirty-set
\* lock as a step of its own.
NextLock ==
    \/ \E w \in Workers :
          \/ save_if_new(w, UploadBatches, MaxUploadMerges, FALSE)
          \/ process_partition(w)
          \/ create_tmp(w)
          \/ write_tmp(w)
          \/ rename(w)
          \/ lock_dirty(w)
          \/ insert_dirty(w)
          \/ save_if_new_return(w)
    \/ lock_pending
    \/ drain_pending
    \/ \E path \in Paths : upload_file(path)
    \/ lock_reinsert
    \/ reinsert_pending

SpecLock == Init /\ [][NextLock]_vars

\* Two workers of the pool merging at the same time, no uploader.
NextRace ==
    \E w \in Workers :
       \/ save_if_new(w, RaceBatches, MaxRaceMerges, FALSE)
       \/ process_partition(w)
       \/ create_tmp(w)
       \/ write_tmp(w)
       \/ rename(w)
       \/ mark_dirty(w)
       \/ save_if_new_return(w)

SpecRace == Init /\ [][NextRace]_vars

\* The pool from its start: the generator, its workers from tick to merge.
InitPool ==
    /\ tree = [dirs |-> {}, others |-> {}]
    /\ collector = IdleCollector(1)
    /\ \E n \in WorkerCounts : pool = StartedPool(n)
    /\ main = MainAt(<<>>)
    /\ dirty_lock = Unlocked
    /\ files = [p \in AllPaths |-> Absent]
    /\ pending_files = [p \in Paths |-> 0]
    /\ remote = [p \in Paths |-> Absent]
    /\ clock = 1
    /\ task = [w \in Workers |-> IdleTask]
    /\ uploader = [pc |-> "sleep", files_to_upload |-> {}, failed_uploads |-> <<>>]
    /\ hist = InitHist

NextPool ==
    \/ start_scraper_pool_return
    \/ tx_send
    \/ \E w \in Workers :
          \/ lock_rx(w)
          \/ recv(w)
          \/ scrape_data(w)
          \/ scrape_data_return(w)
          \/ task[w].pc = "fetch" /\ save_if_new(w, PoolBatches, MaxPoolMerges, FALSE)
          \/ process_partition(w)
          \/ create_tmp(w)
          \/ write_tmp(w)
          \/ rename(w)
          \/ mark_dirty(w)
          \/ save_if_new_return(w)

SpecPool == InitPool /\ [][NextPool]_vars

\* A step of the loop of worker w.
worker(w) ==
    \/ lock_rx(w)
    \/ recv(w)
    \/ scrape_data(w)
    \/ scrape_data_return(w)
    \/ task[w].pc = "fetch" /\ save_if_new(w, PoolBatches, MaxPoolMerges, FALSE)
    \/ process_partition(w)
    \/ create_tmp(w)
    \/ write_tmp(w)
    \/ rename(w)
    \/ mark_dirty(w)
    \/ save_if_new_return(w)

\* The pool on a fair runtime: start_scraper_pool returns, the generator
\* task and every worker task are scheduled again and again, and every
\* fetch and merge returns.
SpecPoolFair ==
    /\ InitPool /\ [][NextPool]_vars
    /\ WF_vars(start_scraper_pool_return)
    /\ WF_vars(tx_send)
    /\ \A w \in Workers : WF_vars(worker(w))

\* main over every configuration of MaxPools pools.
InitMain ==
    /\ tree = [dirs |-> {}, others |-> {}]
    /\ collector = IdleCollector(1)
    /\ pool = StartedPool(Cardinality(Workers))
    /\ \E scrapers \in [1..MaxPools -> ScraperConfigs] : main = MainAt(scrapers)
    /\ dirty_lock = Unlocked
    /\ files = [p \in AllPaths |-> Absent]
    /\ pending_files = [p \in Paths |-> 0]
    /\ remote = [p \in Paths |-> Absent]
    /\ clock = 1
    /\ task = [w \in Workers |-> IdleTask]
    /\ uploader = [pc |-> "sleep", files_to_upload |-> {}, failed_uploads |-> <<>>]
    /\ hist = InitHist

NextMain == start_scraper_pool

SpecMain == InitMain /\ [][NextMain]_vars

\* The partition file a Values merge of one reading leaves.
StoredFile(from, to) ==
    CHOOSE c \in process_values_partition(
                    Absent, <<[delivery_from |-> from, delivery_to |-> to, map |-> [a |-> 0]]>>, 1).contents :
       TRUE

\* A store that merges have filled for 30 March, 31 March and 1 April, and
\* that holds three directories the store did not make: a day directory
\* whose numbers are no calendar date, one whose day does not parse and one
\* that is not under month= and year=.
StoredFiles ==
    [p \in AllPaths |->
        IF p.file # "data.parquet" THEN Absent
        ELSE IF p.day = 30 THEN StoredFile(10, 11)
        ELSE IF p.day = 31 THEN StoredFile(23, 24)
        ELSE StoredFile(46, 47)]

OtherDirs ==
    {<<Plain(base_path), Plain(PoolName), YearDir(2024), MonthDir(2), DayDir(30)>>,
     <<Plain(base_path), Plain(PoolName), YearDir(2024), MonthDir(3), Name("day=", None, "xx")>>,
     <<Plain(base_path), Plain("misc"), DayDir(30)>>}

RECURSIVE create_dirs(_, _)
create_dirs(t, dirs) ==
    IF dirs = {} THEN t
    ELSE LET d == CHOOSE x \in dirs : TRUE
         IN  create_dirs(create_dir_all(t, d), dirs \ {d})

StoredTree ==
    [create_dirs([dirs |-> {}, others |-> {}], {directory(p) : p \in Paths} \cup OtherDirs)
        EXCEPT !.others = {Append(d, Plain("keep")) : d \in OtherDirs}]

InitCleanup ==
    /\ tree = StoredTree
    /\ \E n \in retention_days : collector = IdleCollector(n)
    /\ pool = StartedPool(Cardinality(Workers))
    /\ main = MainAt(<<>>)
    /\ dirty_lock = Unlocked
    /\ files = StoredFiles
    /\ pending_files = [p \in Paths |-> 0]
    /\ remote = [p \in Paths |-> Absent]
    /\ clock = 2
    /\ task = [w \in Workers |-> IdleTask]
    /\ uploader = [pc |-> "sleep", files_to_upload |-> {}, failed_uploads |-> <<>>]
    /\ hist = InitHist

\* A filled store after the last merge: some of its paths are dirty, the
\* others were put as they are.
InitConverge ==
    /\ tree = create_dirs([dirs |-> {}, others |-> {}], {directory(p) : p \in Paths})
    /\ collector = IdleCollector(1)
    /\ pool = StartedPool(Cardinality(Workers))
    /\ main = MainAt(<<>>)
    /\ dirty_lock = Unlocked
    /\ files = StoredFiles
    /\ \E dirty \in SUBSET Paths \ {{}} :
          /\ pending_files = [p \in Paths |-> IF p \in dirty THEN 1 ELSE 0]
          /\ remote = [p \in Paths |-> IF p \in dirty THEN Absent ELSE StoredFiles[p]]
          /\ hist = [InitHist EXCEPT !.owed = dirty]
    /\ clock = 2
    /\ task = [w \in Workers |-> IdleTask]
    /\ uploader = [pc |-> "sleep", files_to_upload |-> {}, failed_uploads |-> <<>>]

\* A step of Uploader::run, cycle after cycle, against a sink that accepts
\* every put.
run ==
    \/ drain_cycle(FALSE)
    \/ \E path \in Paths : put_object(path, {TRUE})
    \/ reinsert

\* No merge any more: the uploader and the cleanup task.
NextConverge ==
    \/ run
    \/ cleanup
    \/ cleanup_recursive
    \/ remove_dir_all
    \/ remove_dir
    \/ cleanup_return

\* The uploader task is scheduled again and again.
SpecConverge == InitConverge /\ [][NextConverge]_vars /\ WF_vars(run)

\* The cleanup task alone over a filled store.
NextCleanup ==
    \/ cleanup
    \/ cleanup_recursive
    \/ remove_dir_all
    \/ remove_dir
    \/ cleanup_return

SpecCleanup == InitCleanup /\ [][NextCleanup]_vars

----------------------------------------------------------------------------
(* Properties *)

InBatch(p) ==
    p \in uploader.files_to_upload \/ p \in Range(uploader.failed_uploads)

\* C1 (upload retry).  When a cycle has ended, every path whose put failed
\* in it is in the dirty-file set, and a path whose put succeeded in it is
\* absent from the set unless a merge marked it after the drain; the set
\* never holds a path twice.
C1_UploadRetry ==
    /\ \A p \in Paths : pending_files[p] <= 1
    /\ uploader.pc = "sleep" =>
          \A p \in Paths :
             /\ p \in hist.put_failed => pending_files[p] = 1
             /\ (p \in hist.put_ok /\ p \notin hist.marked_since_drain)
                   => pending_files[p] = 0

\* A path failed in one cycle, succeeded in the next and is dirty no more.
C1_Witness ==
    /\ uploader.pc = "sleep"
    /\ hist.cycles >= 2
    /\ \E p \in Paths :
          /\ p \in hist.prev_failed
          /\ p \in hist.put_ok
          /\ pending_files[p] = 0

\* C2 as stated: every path that was marked dirty and has had no
\* successful put since is a member of the dirty-file set.
C2_RemovedOnlyAfterPut ==
    \A p \in hist.owed : pending_files[p] > 0

\* C2 as amended: every path that was marked dirty and has had no
\* successful put since is in the dirty-file set or in the batch that the
\* upload cycle in progress drained (awaiting its put, or awaiting its
\* re-insertion after a failed put).
C2_OwedIsQueued ==
    \A p \in hist.owed : pending_files[p] > 0 \/ InBatch(p)

\* A path whose put failed waits in failed_uploads, outside the set.
C2_Witness ==
    \E p \in hist.owed :
       /\ pending_files[p] = 0
       /\ p \in Range(uploader.failed_uploads)
       /\ p \in hist.put_failed

\* C3 (no missed write): whenever no merge is in progress and the local
\* file differs from what was last put successfully, the path is in the
\* dirty-file set or in the batch being uploaded.
C3_NoMissedWrite ==
    NoMergeInProgress =>
       \A p \in Paths :
          files[p] # remote[p] => pending_files[p] > 0 \/ InBatch(p)


\* The step of its call a task is at, or was at when the process crashed.
Phase(w) == IF task[w].pc = "crashed" THEN task[w].crashed_at ELSE task[w].pc

WriteInFlight(p) ==
    \E w \in Workers : Phase(w) \in {"create", "write", "rename"} /\ task[w].path = p

\* The call that ended last is w's, and no call has begun since.
CallEnded(w) == hist.last.worker = w /\ hist.last.result # "none"

\* C4: when a merge call has ended, for every partition it touched: the
\* file was rewritten, and its path put into the dirty-file set, iff the
\* merge added a row or changed a stored value; the file of a partition
\* without such a change is as it was and the call left its dirty-set
\* entry alone; and a call that returns a result returns `changed` iff at
\* least one partition changed.
C4_RewriteIffChanged ==
    \A w \in Workers :
       CallEnded(w) =>
          LET c == hist.call[w]
          IN  /\ \A p \in c.touched :
                    /\ p \in c.rewritten <=> p \in c.rows_changed
                    /\ files[p] # c.files_before[p] <=> p \in c.rows_changed
                    /\ p \in c.rows_changed => pending_files[p] = 1
                    /\ p \notin c.rows_changed => pending_files[p] = c.pending_before[p]
              /\ task[w].result \in {"true", "false"} =>
                    (task[w].result = "true" <=> c.rows_changed # {})

\* A call that left one partition as it was, not dirty, and rewrote another.
C4_Witness ==
    \E w \in Workers :
       /\ CallEnded(w)
       /\ task[w].result = "true"
       /\ \E p, q \in hist.call[w].touched :
             /\ p \in hist.call[w].rows_changed
             /\ q \notin hist.call[w].rows_changed
             /\ files[q].kind = "values"
             /\ files[q] = hist.call[w].files_before[q]

SameFiles(f, g) == \A p \in AllPaths : f[p] = g[p]

\* C5 as stated: a batch merged twice in a row returns changed = false the
\* second time and leaves the files as the first call left them.
C5_RemergeIdempotent ==
    (hist.last.result \in {"true", "false"} /\ hist.prev.result # "none"
        /\ hist.last.data = hist.prev.data)
    => (hist.last.result = "false" /\ SameFiles(hist.last.files, hist.prev.files))

\* No two readings (bids) of the batch share a key and differ in payload.
EqualOnRepeatedKeys(data) ==
    LET vs == values_data(data)
        bs == bids_data(data)
    IN  /\ \A i, j \in 1..Len(vs) :
              (vs[i].delivery_from = vs[j].delivery_from
                  /\ vs[i].delivery_to = vs[j].delivery_to) => vs[i].map = vs[j].map
        /\ \A i, j \in 1..Len(bs) :
              (bs[i].delivery_from = bs[j].delivery_from
                  /\ bs[i].delivery_to = bs[j].delivery_to
                  /\ bs[i].bid.product = bs[j].bid.product
                  /\ bs[i].bid.rank = bs[j].bid.rank)
              => (bs[i].bid.price = bs[j].bid.price /\ bs[i].bid.volume = bs[j].bid.volume)

\* C5 as amended: a batch in which no key repeats with a different payload,
\* merged twice in a row, returns changed = false the second time and
\* leaves every file as the first call left it.
C5_RemergeIdempotentEqualRepeats ==
    (hist.last.result \in {"true", "false"} /\ hist.prev.result # "none"
        /\ hist.last.data = hist.prev.data /\ EqualOnRepeatedKeys(hist.last.data))
    => (hist.last.result = "false" /\ SameFiles(hist.last.files, hist.prev.files))

\* The third call of a run repeats the second, which changed a partition
\* that already held rows, with a key that occurs twice in the batch.
C5_Witness ==
    /\ hist.merges >= 3
    /\ hist.last.data = hist.prev.data
    /\ Len(hist.last.data) = 2
    /\ hist.last.data[1] = hist.last.data[2]
    /\ hist.prev.result = "true"
    /\ hist.last.result = "false"

RowKeys(rows) == {<<rows[i].start, rows[i].end>> : i \in 1..Len(rows)}

\* C6 (Values compaction): a partition file that only Values merges have
\* written holds, whenever no rewrite of it is under way, exactly one row
\* per (delivery_from, delivery_to) key ever merged into it, in ascending
\* order of delivery_from.
C6_ValuesCompaction ==
    \A p \in Paths :
       (p \notin hist.bids_merged /\ ~WriteInFlight(p)) =>
          LET rows == files[p].rows
          IN  /\ RowKeys(rows) = hist.values_merged[p]
              /\ Len(rows) = Cardinality(hist.values_merged[p])
              /\ \A i, j \in 1..Len(rows) : i < j => rows[i].start <= rows[j].start

\* Three keys, two of them with the same start, the latest one merged first.
C6_Witness ==
    \E p \in Paths :
       /\ files[p].kind = "values"
       /\ Len(files[p].rows) = 3
       /\ files[p].rows[1].start = files[p].rows[2].start
       /\ files[p].rows[3].scraped_at < files[p].rows[1].scraped_at

\* C7 (Bids append-only history): in every step the rows of a Bids
\* partition file are a prefix of its rows after the step.
C7_BidsAppendOnly ==
    [][\A p \in Paths :
          files[p].kind = "bids" =>
             /\ files'[p].kind = "bids"
             /\ IsPrefix(files[p].rows, files'[p].rows)]_vars

\* A Bids file that three merges appended to.
C7_Witness ==
    \E p \in Paths :
       /\ files[p].kind = "bids"
       /\ Len(files[p].rows) >= 3
       /\ files[p].rows[1].scraped_at < files[p].rows[2].scraped_at
       /\ files[p].rows[2].scraped_at < files[p].rows[3].scraped_at

\* C8: a Values merge and a Bids merge never use the same file, so no merge
\* finds rows of the other payload kind in the file it reads.
C8_SeparateFiles ==
    \A w \in Workers :
       hist.call[w].kind # "none" =>
          hist.call[w].before.kind \notin ({"values", "bids"} \ {hist.call[w].kind})

\* The calendar date in Europe/Vienna of the instants the batches use:
\* 2024-03-30T23:00Z is 00:00 CET of 31 March, 2024-03-31T21:00Z is 23:00
\* CEST of 31 March, 2024-03-31T22:00Z is 00:00 CEST of 1 April.
ExpectedViennaDate(start) ==
    CASE start = 23 -> [year |-> 2024, month |-> 3, day |-> 31]
      [] start = 45 -> [year |-> 2024, month |-> 3, day |-> 31]
      [] start = 46 -> [year |-> 2024, month |-> 4, day |-> 1]

\* C9 (date partitioning): every row is stored in the partition whose
\* year/month/day is the Europe/Vienna calendar date of its delivery_from.
C9_LocalDatePartition ==
    \A p \in Paths :
       \A i \in 1..Len(files[p].rows) :
          ExpectedViennaDate(files[p].rows[i].start)
             = [year |-> p.year, month |-> p.month, day |-> p.day]

\* A reading of 30 March (UTC) lies in the partition of 31 March, and one
\* batch with 2024-03-31T21:00Z and T22:00Z went to two partitions.
C9_Witness ==
    \E p, q \in Paths :
       /\ p.day = 31 /\ q.day = 1
       /\ \E i \in 1..Len(files[p].rows) : files[p].rows[i].start = 23
       /\ \E i \in 1..Len(files[p].rows) : files[p].rows[i].start = 45
       /\ \E i \in 1..Len(files[q].rows) : files[q].rows[i].start = 46

\* C10 (crash atomicity): from the creation of the temporary file until the
\* rename, also when the process crashed in between, the target file holds
\* the complete content it had when the merge read it, and before the
\* rename the temporary file holds the full new content.
C10_CrashAtomicity ==
    \A w \in Workers :
       /\ Phase(w) \in {"create", "write", "rename"} =>
             /\ files[task[w].path] = hist.call[w].before
             /\ hist.call[w].before.kind \in {"absent", "values", "bids"}
       /\ Phase(w) = "rename" => files[tmp_path(task[w].path)] = task[w].newc

\* Crashed between the write of the temporary file and the rename, over a
\* partition that had content.
C10_Witness ==
    \E w \in Workers :
       /\ task[w].pc = "crashed"
       /\ task[w].crashed_at = "rename"
       /\ hist.call[w].before.kind # "absent"
       /\ files[task[w].path] = hist.call[w].before
       /\ files[tmp_path(task[w].path)] = task[w].newc
       /\ task[w].newc # hist.call[w].before

\* C11: at every moment the content at a partition's target path is absent or
\* the complete output of one finished write, and so is every content the
\* uploader read and put.
C11_NoPartialRead ==
    \A p \in Paths :
       /\ files[p].kind \in {"absent", "values", "bids"}
       /\ remote[p].kind \in {"absent", "values", "bids"}

\* C12 (no per-partition mutual exclusion): whenever no merge is in
\* progress, a cell that a successful rewrite stored is absent from the
\* partition file only where two read-modify-writes of that partition ran at
\* the same time; C12_Witness is the lost update the claim says is
\* reachable.
C12_LostOnlyByRace ==
    NoMergeInProgress =>
       \A p \in Paths :
          p \notin hist.raced => hist.stored[p] \subseteq StoredCells(files[p])

\* Both merges returned Ok(true), they ran at the same time, and a cell one
\* of them stored is gone from the complete file the other one left.
C12_Witness ==
    /\ \A w \in Workers : task[w].pc = "idle" /\ task[w].result = "true"
    /\ \E p \in hist.raced :
          /\ files[p].kind = "values"
          /\ hist.stored[p] \ StoredCells(files[p]) # {}

\* The day directories of the store's layout whose numbers are a calendar
\* date, as the tree of SpecCleanup names them, counted in days from
\* 30 March 2024.
DayNumber(dir) ==
    CASE dir = <<Plain(base_path), Plain(PoolName), YearDir(2024), MonthDir(3), DayDir(30)>> -> 0
      [] dir = <<Plain(base_path), Plain(PoolName), YearDir(2024), MonthDir(3), DayDir(31)>> -> 1
      [] dir = <<Plain(base_path), Plain(PoolName), YearDir(2024), MonthDir(4), DayDir(1)>> -> 2

DayPartitions == {directory(p) : p \in Paths}

\* The Europe/Vienna calendar date of the instant `days` days before `now`,
\* in days from 30 March 2024: CET (UTC+1) until 2024-03-31T01:00Z, CEST
\* (UTC+2) from then on.
CutoffDayNumber(now, days) ==
    CASE now - 24 * days = 23 -> 1
      [] now - 24 * days = 45 -> 1
      [] now - 24 * days = 46 -> 2
      [] now - 24 * days = 47 -> 2
      [] now - 24 * days = 69 -> 2
      [] now - 24 * days = 70 -> 3
      [] now - 24 * days = 71 -> 3
      [] now - 24 * days = 93 -> 3
      [] now - 24 * days = 94 -> 4

PassEnded(result) == collector.pc = "sleep" /\ hist.pass.result = result

\* C13 (retention boundary): when a pass has ended without an error, a day
\* partition that the store held at its start is gone, with its file, iff
\* its date is strictly before the Europe/Vienna date of now minus
\* retention_days days; the partition of that very date is kept.
C13_RetentionBoundary ==
    PassEnded("ok") =>
       \A p \in Paths :
          directory(p) \in hist.pass.dirs =>
             LET is_expired == DayNumber(directory(p))
                                  < CutoffDayNumber(hist.pass.now, collector.retention_days)
             IN  /\ directory(p) \notin tree.dirs <=> is_expired
                 /\ files[p] = Absent <=> (is_expired \/ hist.pass.files[p] = Absent)
                 /\ ~is_expired => files[p] = hist.pass.files[p]

\* now = 2024-04-01T22:00Z and one day of retention: the cutoff is 31 March
\* in UTC and 1 April in Vienna; 1 April is kept and 31 March is deleted.
C13_Witness ==
    /\ PassEnded("ok")
    /\ hist.pass.now = 70
    /\ collector.retention_days = 1
    /\ <<Plain(base_path), Plain(PoolName), YearDir(2024), MonthDir(4), DayDir(1)>> \in tree.dirs
    /\ <<Plain(base_path), Plain(PoolName), YearDir(2024), MonthDir(3), DayDir(31)>>
          \in hist.pass.dirs \ tree.dirs

\* C14 (retention safety): the cleanup task deletes nothing but what lies
\* under a day directory of the store's layout whose numbers are a calendar
\* date strictly before the cutoff date.  Every file in a directory whose
\* numbers are no calendar date, whose day does not parse or that is not
\* under month= and year= exists, and every partition file of a date that
\* has not expired exists with the content it had.
C14_RetentionSafety ==
    /\ \A f \in StoredTree.others : f \in tree.others
    /\ \A p \in AllPaths :
          files[p] # StoredFiles[p] =>
             /\ hist.passes > 0
             /\ DayNumber(directory(p)) < CutoffDayNumber(hist.pass.now, collector.retention_days)

\* A pass deleted the partition of 30 March and kept that of 1 April, and
\* the directory `month=02/day=30`, whose numbers are before the cutoff but
\* no date, still holds its file.
C14_Witness ==
    /\ PassEnded("ok")
    /\ \E p, q \in Paths :
          /\ p.day = 30 /\ files[p] = Absent /\ directory(p) \notin tree.dirs
          /\ q.day = 1 /\ files[q] = StoredFiles[q] /\ files[q] # Absent
    /\ <<Plain(base_path), Plain(PoolName), YearDir(2024), MonthDir(2), DayDir(30), Plain("keep")>>
          \in tree.others

Max(a, b) == IF a >= b THEN a ELSE b

\* The generator is at its send with a live receiver, and the model has
\* ticks left to emit.
GeneratorSends ==
    pool.generator = "loop" /\ rx_held /\ hist.emitted < MaxTicks

\* C16 as stated: at most max(2 * worker_count, 10) ticks are pending, and
\* the generator can enqueue a tick whenever fewer than that are pending.
C16_CapacityAtLeastTen ==
    /\ Len(pending) <= Max(2 * pool.workers, 10)
    /\ (GeneratorSends /\ Len(pending) < Max(2 * pool.workers, 10)) => ENABLED enqueue

\* C16 as amended: the capacity is 2 * worker_count for a positive
\* worker_count and 10 for none; the pending ticks never exceed it; a
\* generator whose receiver is alive can enqueue exactly when fewer than
\* that many ticks are pending, so it emits nothing while the queue is full.
C16_CapacityTwicePerWorker ==
    LET capacity == IF pool.workers > 0 THEN 2 * pool.workers ELSE 10
    IN  /\ pool.buffer_size = capacity
        /\ Len(pending) <= capacity
        /\ GeneratorSends => (ENABLED enqueue <=> Len(pending) < capacity)

\* The queue of a one-worker pool is full again after the worker took a
\* tick out of the full queue.
C16_Witness ==
    /\ pool.workers = 1
    /\ Len(pending) = 2
    /\ hist.emitted = 3
    /\ hist.log[1].by = {1}

WorkersAlive == \E w \in PoolWorkers : task[w].pc \notin {"panicked", "stopped"}

Received == {i \in 1..MaxTicks : hist.log[i].by # {}}

\* C17: no tick is received by two workers; while a worker is alive every
\* emitted tick is either pending (once) or received by exactly one worker,
\* so that ticks consumed + ticks pending = ticks emitted.
C17_ExactlyOnce ==
    /\ \A i \in 1..MaxTicks : Cardinality(hist.log[i].by) <= 1
    /\ WorkersAlive =>
          /\ Cardinality(Received) + Len(pending) = hist.emitted
          /\ \A i \in 1..hist.emitted :
                Cardinality({k \in 1..Len(pending) : pending[k] = i})
                   = IF i \in Received THEN 0 ELSE 1

\* Of three ticks, one went to each of two workers and one is pending.
C17_Witness ==
    /\ hist.emitted = 3
    /\ Len(pending) = 1
    /\ \E i, j \in 1..MaxTicks : hist.log[i].by = {1} /\ hist.log[j].by = {2}

InFlight == {w \in Workers : task[w].pc = "fetch"}

\* C18: at most worker_count calls of scrape_data are in flight; a tick has
\* one call of scrape_data as soon as its worker is past the receive, and
\* never a second one.
C18_FetchPerTick ==
    /\ Cardinality(InFlight) <= pool.workers
    /\ \A i \in 1..MaxTicks :
          hist.log[i].fetches =
             IF i \in Received /\ ~ \E w \in Workers : task[w].pc = "tick" /\ pool.tick[w] = i
             THEN 1 ELSE 0

\* Both workers of a two-worker pool are in scrape_data, each for its tick,
\* after an earlier tick had its fetch.
C18_Witness ==
    /\ pool.workers = 2
    /\ InFlight = {1, 2}
    /\ pool.tick[1] # pool.tick[2]
    /\ \A i \in 1..3 : hist.log[i].fetches = 1

\* C19: save_if_new is called for a tick exactly when its scrape_data
\* returned a non-empty result; no worker task ends but by the break at a
\* closed channel.
C19_WorkerLoop ==
    /\ \A i \in 1..MaxTicks :
          /\ hist.log[i].merges = (IF hist.log[i].fetched = "data" THEN 1 ELSE 0)
    /\ \A w \in Workers :
          /\ task[w].pc # "panicked"
          /\ task[w].pc = "stopped" => pool.generator = "stopped"

\* C20: a merge that finds a file it cannot take as a file of its kind ends
\* with an Err, and its worker goes on.
C20_MalformedFileIsErr ==
    \A w \in Workers :
       (/\ hist.call[w].kind # "none"
        /\ hist.call[w].before.kind \notin {"absent", hist.call[w].kind}
        /\ Phase(w) \notin {"create", "write", "rename", "mark", "groups"})
          => (Phase(w) = "idle" /\ task[w].result = "err")

Valid(config) ==
    /\ config.url # None
    /\ config.url[1] # {}
    /\ config.adapter_ok

\* C21: a pool whose configuration has no URL, a URL naming no known
\* provider or an adapter that cannot be built has neither generator nor
\* workers; once main's loop is through, every other pool has its generator
\* and its worker_count workers, whatever failed before or after it.
C21_PoolErrorsIsolated ==
    \A i \in 1..Len(main.scrapers) :
       /\ ~Valid(main.scrapers[i]) =>
             (~main.pools[i].generator /\ main.pools[i].workers = 0)
       /\ (Valid(main.scrapers[i]) /\ main.next > Len(main.scrapers)) =>
             (main.pools[i].generator /\ main.pools[i].workers = main.scrapers[i].workers)
       /\ i < main.next <=> main.pools[i] # NotStarted

\* The loop is through; the second pool failed on an unknown provider, the
\* pools before and after it run.
C21_Witness ==
    /\ main.next > Len(main.scrapers)
    /\ main.scrapers[2].url = Some({})
    /\ main.pools[1].state = "started"
    /\ main.pools[2].state = "failed"
    /\ main.pools[3].state = "started"

\* C22: after the process stopped and started again, every path that was
\* marked dirty and has had no successful put since is pending upload: it
\* is in the dirty-file set or in the batch of the upload cycle in progress.
C22_LedgerDurable ==
    (hist.restarts > 0 /\ uploader.pc # "crashed") =>
       \A p \in hist.owed : pending_files[p] > 0 \/ InBatch(p)

\* The rows of a Values file by key: scraped_at and the metric values.
FileRows(file) ==
    [key \in RowKeys(file.rows) |->
       LET r == CHOOSE r \in Range(file.rows) : <<r.start, r.end>> = key
       IN  [scraped_at |-> r.scraped_at, values |-> r.values]]

\* The rows after the first n readings of a group were merged into `rows`.
RowsAfter(rows, data, n, now) ==
    merge_values([all_rows |-> rows, all_columns |-> {}, has_changes |-> FALSE],
                 data, n, now).all_rows

\* What C23 says of one reading d merged at `now` into the rows `old`,
\* giving the rows `new`.
ReadingMerged(old, new, d, now) ==
    LET key == <<d.delivery_from, d.delivery_to>>
        changed ==
           \/ key \notin DOMAIN old
           \/ \E m \in DOMAIN d.map :
                 \/ m \notin DOMAIN old[key].values
                 \/ old[key].values[m] - d.map[m] > F64_EPSILON
                 \/ d.map[m] - old[key].values[m] > F64_EPSILON
    IN  /\ DOMAIN new = DOMAIN old \cup {key}
        /\ \A other \in DOMAIN old \ {key} : new[other] = old[other]
        /\ changed =>
              /\ new[key].scraped_at = now
              /\ DOMAIN new[key].values
                    = DOMAIN d.map \cup (IF key \in DOMAIN old THEN DOMAIN old[key].values ELSE {})
              /\ \A m \in DOMAIN d.map : new[key].values[m] = d.map[m]
              /\ \A m \in DOMAIN new[key].values \ DOMAIN d.map :
                    new[key].values[m] = old[key].values[m]
        /\ ~changed => new[key] = old[key]

\* C23: in a Values merge that rewrites the file, every reading of the
\* group, taken in order, changes its row exactly when the row is new, a
\* metric of the reading differs from the stored value by more than the
\* tolerance or a metric of the reading is not in the row; a changed row
\* takes the merge instant and the reading's metrics and keeps its other
\* metrics; every other row is left as it was; and the file written holds
\* the rows so obtained.
C23_ValuesChangeDetection ==
    \A w \in Workers :
       (task[w].kind = "values" /\ Phase(w) \in {"create", "write", "rename", "mark"}) =>
          LET old == FileRows(hist.call[w].before)
              data == task[w].group
              now == clock - 1
          IN  /\ \A n \in 1..Len(data) :
                    ReadingMerged(RowsAfter(old, data, n - 1, now),
                                  RowsAfter(old, data, n, now), data[n], now)
              /\ FileRows(task[w].newc) = RowsAfter(old, data, Len(data), now)

\* A reading with a new metric for a stored row is being written: the row
\* has the merge instant, the new metric and the metric it had.
C23_Witness ==
    \E w \in Workers :
       /\ task[w].kind = "values" /\ task[w].pc = "rename"
       /\ \E key \in DOMAIN FileRows(hist.call[w].before) :
             /\ key \in DOMAIN FileRows(task[w].newc)
             /\ DOMAIN FileRows(hist.call[w].before)[key].values = {"a"}
             /\ DOMAIN FileRows(task[w].newc)[key].values = {"a", "b"}
             /\ FileRows(task[w].newc)[key].scraped_at = clock - 1
             /\ FileRows(hist.call[w].before)[key].scraped_at < clock - 1

BidKey(r) == <<r.start, r.end, r.product, r.rank>>

\* The rows of the file after the first n bids of a group were merged: the
\* rows it had, then the rows appended so far.
BidRowsAfter(file, data, n, now) ==
    file.rows \o merge_bids([latest_values |-> load_latest_values(file.rows, Len(file.rows)),
                             new_rows |-> <<>>], data, n, now).new_rows

\* Two optional numbers differ: one is absent and the other is not, or both
\* are present and more than the tolerance apart.
OptionDiffers(x, y) ==
    IF x = None \/ y = None THEN x # y
    ELSE x[1] - y[1] > F64_EPSILON \/ y[1] - x[1] > F64_EPSILON

\* What C24 says of one bid d merged at `now` into a file with the rows
\* `old`, giving the rows `new`.
BidMerged(old, new, d, now) ==
    LET key == <<d.delivery_from, d.delivery_to, d.bid.product, d.bid.rank>>
        written == {i \in 1..Len(old) : BidKey(old[i]) = key}
        last == old[CHOOSE i \in written : \A j \in written : j <= i]
        changed ==
           \/ written = {}
           \/ OptionDiffers(last.price, d.bid.price)
           \/ OptionDiffers(last.volume, d.bid.volume)
    IN  IF changed
        THEN new = Append(old, [start |-> d.delivery_from, end |-> d.delivery_to,
                                product |-> d.bid.product, rank |-> d.bid.rank,
                                price |-> d.bid.price, volume |-> d.bid.volume,
                                scraped_at |-> now])
        ELSE new = old

\* C24: in a Bids merge every bid of the group, taken in order, appends a
\* row exactly when no row was written for its key or its price or volume
\* differs from those of the row written last for the key (rows appended
\* for earlier bids of the batch included); an unchanged bid appends
\* nothing; the file written holds the rows so obtained.  "Differs" is
\* taken with the tolerance of the change detection.
C24_BidsChangeDetection ==
    \A w \in Workers :
       (/\ task[w].kind = "bids"
        /\ Phase(w) \in {"groups", "create", "write", "rename", "mark"}
        /\ hist.call[w].before.kind \in {"absent", "bids"}) =>
          LET file == hist.call[w].before
              data == task[w].group
              now == clock - 1
          IN  /\ \A n \in 1..Len(data) :
                    BidMerged(BidRowsAfter(file, data, n - 1, now),
                              BidRowsAfter(file, data, n, now), data[n], now)
              /\ Phase(w) # "groups" =>
                    task[w].newc.rows = BidRowsAfter(file, data, Len(data), now)

\* A file that holds an older and a newer row of one key, and a merge of a
\* bid equal to the older row that appends a third row.
C24_Witness ==
    \E w \in Workers :
       /\ task[w].kind = "bids" /\ task[w].pc = "rename"
       /\ Len(hist.call[w].before.rows) = 2
       /\ Len(task[w].newc.rows) = 3
       /\ BidKey(task[w].newc.rows[1]) = BidKey(task[w].newc.rows[3])
       /\ task[w].newc.rows[1].price = task[w].newc.rows[3].price
       /\ task[w].newc.rows[2].price # task[w].newc.rows[3].price

\* The holder of the dirty-set lock is at its insert or its drain, and at
\* no file operation or put.
HolderAtSetOperation ==
    /\ \A w \in Workers :
          dirty_lock = Worker(w) <=> task[w].pc = "insert"
    /\ dirty_lock = UploaderTask <=> uploader.pc \in {"drain", "reinsert"}

\* The set changes only in a step of the task that holds the lock.
SetChangesUnderLock ==
    pending_files' # pending_files =>
       \/ dirty_lock = UploaderTask /\ uploader' # uploader /\ task' = task
       \/ \E w \in Workers :
             /\ dirty_lock = Worker(w)
             /\ task'[w] # task[w]
             /\ uploader' = uploader
             /\ \A v \in Workers \ {w} : task'[v] = task[v]

\* C25: in every reachable state the holder of the dirty-set lock is at
\* its insert or at its drain, with no file read, write, rename or put of
\* its own in progress; the set changes only in steps of the holder, so an
\* insert and the drain never interleave.
C25_LockOnlyAroundSetOperations ==
    []HolderAtSetOperation /\ [][SetChangesUnderLock]_vars

\* The uploader holds the lock for its re-insertion while a worker that has
\* renamed its file waits for the lock.
C25_Witness ==
    /\ dirty_lock = UploaderTask
    /\ uploader.pc = "reinsert"
    /\ \E w \in Workers : task[w].pc = "mark"

\* C26: with no further merge and a sink that accepts every put, the
\* dirty-file set is eventually empty for good, also when the cleanup task
\* deletes partitions whose paths are dirty.
C26_UploadConverges ==
    <>[](\A p \in Paths : pending_files[p] = 0)

\* C27: in a pool with a worker, every tick the generator has enqueued is
\* eventually received by a worker: again and again the pool is in a state
\* in which every tick enqueued so far has been received.
C27_TicksReceived ==
    []<>(pool.workers >= 1 => \A i \in 1..hist.emitted : hist.log[i].by # {})

====
